---- MODULE Spec2Model ----
(***************************************************************************)
(* Model of src/function.rs: the built-in XPath function library.          *)
(*                                                                         *)
(* Two specifications share the variables:                                 *)
(*   Spec     one call of evaluate on one of the 13 built-ins, with the    *)
(*            context and the argument list drawn by Init;                 *)
(*   SpecReg  a caller-owned registry (Functions, a HashMap from name to   *)
(*            boxed Function) under caller inserts and                     *)
(*            register_core_functions.                                     *)
(*                                                                         *)
(* Strings are sequences of characters.  A Number's payload is an exact    *)
(* count of halves (3 stands for 1.5), which is enough to tell floor,      *)
(* ceiling and the identity apart.  An index or slice out of range is the  *)
(* outcome Panic, a third outcome beside Ok and Err.                       *)
(***************************************************************************)
EXTENDS Integers, Sequences, FiniteSets, TLC

VARIABLES ctx, args, fn, result, registry, prev, base, op, runs, inserts

vars == <<ctx, args, fn, result, registry, prev, base, op, runs, inserts>>

evalVars == <<ctx, args, fn, result>>

regVars == <<registry, prev, base, op, runs, inserts>>

(***************************************************************************)
(* Bounds of the model.                                                    *)
(***************************************************************************)
MaxArgs == 3

MaxStrLen == 2

MaxUserInserts == 2

MaxRuns == 2

Alphabet == {"a", "b"}

Strings == UNION {[1..k -> Alphabet] : k \in 0..MaxStrLen}

(***************************************************************************)
(* Value: the four variants, and the inputs the model draws.               *)
(***************************************************************************)
Nodes(k) == [tag |-> "Nodes", size |-> k]

Boolean(b) == [tag |-> "Boolean", b |-> b]

Number(h) == [tag |-> "Number", halves |-> h]

String(s) == [tag |-> "String", s |-> s]

NodesetSizes == {0, 2}

NumberHalves == {-3, 3}

Values ==
    {Nodes(k) : k \in NodesetSizes} \cup {Boolean(b) : b \in BOOLEAN}
        \cup {Number(h) : h \in NumberHalves} \cup {String(s) : s \in Strings}

ArgLists == UNION {[1..k -> Values] : k \in 0..MaxArgs}

\* EvaluationContext: size() and position(), position in 1..size.
Contexts == {[size |-> 1, position |-> 1], [size |-> 3, position |-> 2]}

(***************************************************************************)
(* Result<Value, Error>, and the abort of an out-of-range index or slice.  *)
(***************************************************************************)
Ok(v) == [kind |-> "Ok", value |-> v]

Err(e) == [kind |-> "Err", error |-> e]

Panic == [kind |-> "Panic"]

TooManyArguments(expected, actual) ==
    [kind |-> "TooManyArguments", expected |-> expected, actual |-> actual]

NotEnoughArguments(expected, actual) ==
    [kind |-> "NotEnoughArguments", expected |-> expected, actual |-> actual]

WrongType(expected, actual) ==
    [kind |-> "WrongType", expected |-> expected, actual |-> actual]

\* Mutant of wrong_type: expected and actual change places.
wrong_type_swapped(actual, expected) ==
    LET t == CASE actual.tag = "Nodes" -> "Nodeset"
               [] actual.tag = "String" -> "String"
               [] actual.tag = "Number" -> "Number"
               [] actual.tag = "Boolean" -> "Boolean"
    IN  WrongType(t, expected)

wrong_type(actual, expected) ==
    LET t == CASE actual.tag = "Nodes" -> "Nodeset"
               [] actual.tag = "String" -> "String"
               [] actual.tag = "Number" -> "Number"
               [] actual.tag = "Boolean" -> "Boolean"
    IN  WrongType(expected, t)

(***************************************************************************)
(* Arity and type validation primitives.                                   *)
(***************************************************************************)
minimum_arg_count(a, minimum) ==
    LET actual == Len(a)
    IN  IF actual < minimum
        THEN Err(NotEnoughArguments(minimum, actual))
        ELSE Ok(<<>>)

\* Mutant of exact_arg_count: the upper bound is forgotten.
exact_arg_count_no_upper(a, expected) ==
    LET actual == Len(a)
    IN  IF actual < expected
        THEN Err(NotEnoughArguments(expected, actual))
        ELSE Ok(<<>>)

exact_arg_count(a, expected) ==
    LET actual == Len(a)
    IN  IF actual < expected
        THEN Err(NotEnoughArguments(expected, actual))
        ELSE IF actual > expected
        THEN Err(TooManyArguments(expected, actual))
        ELSE Ok(<<>>)

string_arg(v) ==
    IF v.tag = "String" THEN Ok(v.s) ELSE Err(wrong_type(v, "String"))

\* collect() into a Result: the elements are mapped left to right and the
\* first Err ends the iteration and is the result.
RECURSIVE collect_strings(_, _, _)
collect_strings(a, i, acc) ==
    IF i > Len(a)
    THEN Ok(acc)
    ELSE LET r == string_arg(a[i])
         IN  IF r.kind = "Err" THEN r
             ELSE collect_strings(a, i + 1, Append(acc, r.value))

\* Mutant of string_args: every element is checked and the last failure is
\* the one reported.
RECURSIVE collect_strings_last(_, _, _, _)
collect_strings_last(a, i, acc, failed) ==
    IF i > Len(a)
    THEN (IF failed.kind = "Err" THEN failed ELSE Ok(acc))
    ELSE LET r == string_arg(a[i])
         IN  IF r.kind = "Err" THEN collect_strings_last(a, i + 1, acc, r)
             ELSE collect_strings_last(a, i + 1, Append(acc, r.value), failed)

string_args_last_failure(a) == collect_strings_last(a, 1, <<>>, Ok(<<>>))

string_args(a) == collect_strings(a, 1, <<>>)

\* &args[0] aborts on an empty vector.
one_number(a) ==
    IF Len(a) = 0 THEN Panic
    ELSE IF a[1].tag = "Number" THEN Ok(a[1].halves)
    ELSE Err(wrong_type(a[1], "Number"))

(***************************************************************************)
(* The string and float operations of the standard library that the        *)
(* built-ins call.                                                         *)
(***************************************************************************)
\* [String].concat(): the strings one after the other, in order.
RECURSIVE concat(_)
concat(ss) == IF ss = <<>> THEN <<>> ELSE Head(ss) \o concat(Tail(ss))

MatchesAt(h, n, i) ==
    i + Len(n) <= Len(h) /\ SubSeq(h, i + 1, i + Len(n)) = n

\* str::find_str: the byte offset of the first match, scanning offsets
\* upwards from 0; the empty needle matches at offset 0.
find_str(h, n) ==
    LET hits == {i \in 0..Len(h) : MatchesAt(h, n, i)}
    IN  IF hits = {} THEN [some |-> FALSE]
        ELSE [some |-> TRUE, pos |-> CHOOSE i \in hits : \A j \in hits : i <= j]

starts_with(h, n) == MatchesAt(h, n, 0)

contains(h, n) == find_str(h, n).some

\* &s[..to] and &s[from..]: abort when the offset lies beyond the string.
slice_to(s, to) == IF to > Len(s) THEN Panic ELSE Ok(SubSeq(s, 1, to))

slice_from(s, from) ==
    IF from > Len(s) THEN Panic ELSE Ok(SubSeq(s, from + 1, Len(s)))

\* f64::floor and f64::ceil on a count of halves (\div rounds down).
floor(h) == 2 * (h \div 2)

ceil(h) == -(2 * ((-h) \div 2))

\* usize as f64.
as_f64(k) == 2 * k

(***************************************************************************)
(* The 13 built-ins: Function::evaluate(context, args) of each struct.     *)
(* try!(e) returns e's Err from the function; any abort ends the call.     *)
(***************************************************************************)
Last_evaluate(context, a) ==
    LET c == exact_arg_count(a, 0)
    IN  IF c.kind # "Ok" THEN c
        ELSE Ok(Number(as_f64(context.size)))

Position_evaluate(context, a) ==
    LET c == exact_arg_count(a, 0)
    IN  IF c.kind # "Ok" THEN c
        ELSE Ok(Number(as_f64(context.position)))

\* Mutant of Count::evaluate: the context's size instead of the node-set's.
Count_evaluate_context_size(context, a) ==
    LET c == exact_arg_count(a, 1)
    IN  IF c.kind # "Ok" THEN c
        ELSE IF Len(a) = 0 THEN Panic
        ELSE IF a[1].tag = "Nodes" THEN Ok(Number(as_f64(context.size)))
        ELSE Err(wrong_type(a[1], "Nodeset"))

Count_evaluate(context, a) ==
    LET c == exact_arg_count(a, 1)
    IN  IF c.kind # "Ok" THEN c
        ELSE IF Len(a) = 0 THEN Panic
        ELSE IF a[1].tag = "Nodes" THEN Ok(Number(as_f64(a[1].size)))
        ELSE Err(wrong_type(a[1], "Nodeset"))

\* Mutant of Concat::evaluate: the exact-arity check of its neighbours.
Concat_evaluate_exactly_two(context, a) ==
    LET c == exact_arg_count(a, 2)
    IN  IF c.kind # "Ok" THEN c
        ELSE LET s == string_args(a)
             IN  IF s.kind # "Ok" THEN s
                 ELSE Ok(String(concat(s.value)))

Concat_evaluate(context, a) ==
    LET c == minimum_arg_count(a, 2)
    IN  IF c.kind # "Ok" THEN c
        ELSE LET s == string_args(a)
             IN  IF s.kind # "Ok" THEN s
                 ELSE Ok(String(concat(s.value)))

StartsWith_evaluate(context, a) ==
    LET c == exact_arg_count(a, 2)
    IN  IF c.kind # "Ok" THEN c
        ELSE LET s == string_args(a)
             IN  IF s.kind # "Ok" THEN s
                 ELSE IF Len(s.value) < 2 THEN Panic
                 ELSE Ok(Boolean(starts_with(s.value[1], s.value[2])))

Contains_evaluate(context, a) ==
    LET c == exact_arg_count(a, 2)
    IN  IF c.kind # "Ok" THEN c
        ELSE LET s == string_args(a)
             IN  IF s.kind # "Ok" THEN s
                 ELSE IF Len(s.value) < 2 THEN Panic
                 ELSE Ok(Boolean(contains(s.value[1], s.value[2])))

\* Mutant of SubstringBefore::evaluate: the slice runs through the needle.
SubstringBefore_evaluate_through_needle(context, a) ==
    LET c == exact_arg_count(a, 2)
    IN  IF c.kind # "Ok" THEN c
        ELSE LET s == string_args(a)
             IN  IF s.kind # "Ok" THEN s
                 ELSE IF Len(s.value) < 2 THEN Panic
                 ELSE LET haystack == s.value[1]
                          found == find_str(haystack, s.value[2])
                          r == IF found.some
                               THEN slice_to(haystack, found.pos + Len(s.value[2]))
                               ELSE Ok(<<>>)
                      IN  IF r.kind # "Ok" THEN r ELSE Ok(String(r.value))

SubstringBefore_evaluate(context, a) ==
    LET c == exact_arg_count(a, 2)
    IN  IF c.kind # "Ok" THEN c
        ELSE LET s == string_args(a)
             IN  IF s.kind # "Ok" THEN s
                 ELSE IF Len(s.value) < 2 THEN Panic
                 ELSE LET haystack == s.value[1]
                          found == find_str(haystack, s.value[2])
                          r == IF found.some
                               THEN slice_to(haystack, found.pos)
                               ELSE Ok(<<>>)
                      IN  IF r.kind # "Ok" THEN r ELSE Ok(String(r.value))

\* Mutant of SubstringAfter::evaluate: the slice starts one byte too far.
SubstringAfter_evaluate_one_too_far(context, a) ==
    LET c == exact_arg_count(a, 2)
    IN  IF c.kind # "Ok" THEN c
        ELSE LET s == string_args(a)
             IN  IF s.kind # "Ok" THEN s
                 ELSE IF Len(s.value) < 2 THEN Panic
                 ELSE LET haystack == s.value[1]
                          needle == s.value[2]
                          found == find_str(haystack, needle)
                          r == IF found.some
                               THEN slice_from(haystack, found.pos + Len(needle) + 1)
                               ELSE Ok(<<>>)
                      IN  IF r.kind # "Ok" THEN r ELSE Ok(String(r.value))

SubstringAfter_evaluate(context, a) ==
    LET c == exact_arg_count(a, 2)
    IN  IF c.kind # "Ok" THEN c
        ELSE LET s == string_args(a)
             IN  IF s.kind # "Ok" THEN s
                 ELSE IF Len(s.value) < 2 THEN Panic
                 ELSE LET haystack == s.value[1]
                          needle == s.value[2]
                          found == find_str(haystack, needle)
                          r == IF found.some
                               THEN slice_from(haystack, found.pos + Len(needle))
                               ELSE Ok(<<>>)
                      IN  IF r.kind # "Ok" THEN r ELSE Ok(String(r.value))

Not_evaluate(context, a) ==
    LET c == exact_arg_count(a, 1)
    IN  IF c.kind # "Ok" THEN c
        ELSE IF Len(a) = 0 THEN Panic
        ELSE IF a[1].tag = "Boolean" THEN Ok(Boolean(~a[1].b))
        ELSE Err(wrong_type(a[1], "Boolean"))

True_evaluate(context, a) ==
    LET c == exact_arg_count(a, 0)
    IN  IF c.kind # "Ok" THEN c
        ELSE Ok(Boolean(TRUE))

False_evaluate(context, a) ==
    LET c == exact_arg_count(a, 0)
    IN  IF c.kind # "Ok" THEN c
        ELSE Ok(Boolean(FALSE))

\* Mutant of Floor::evaluate: the argument is typed before it is counted.
Floor_evaluate_type_first(context, a) ==
    LET n == one_number(a)
    IN  IF n.kind # "Ok" THEN n
        ELSE LET c == exact_arg_count(a, 1)
             IN  IF c.kind # "Ok" THEN c
                 ELSE Ok(Number(floor(n.value)))

Floor_evaluate(context, a) ==
    LET c == exact_arg_count(a, 1)
    IN  IF c.kind # "Ok" THEN c
        ELSE LET n == one_number(a)
             IN  IF n.kind # "Ok" THEN n
                 ELSE Ok(Number(floor(n.value)))

Ceiling_evaluate(context, a) ==
    LET c == exact_arg_count(a, 1)
    IN  IF c.kind # "Ok" THEN c
        ELSE LET n == one_number(a)
             IN  IF n.kind # "Ok" THEN n
                 ELSE Ok(Number(ceil(n.value)))

Structs ==
    {"Last", "Position", "Count", "Concat", "StartsWith", "Contains",
     "SubstringBefore", "SubstringAfter", "Not", "True", "False", "Floor",
     "Ceiling"}

\* The Function trait: f.evaluate(context, args) runs the evaluate of f's
\* struct.
Function_evaluate(f, context, a) ==
    CASE f = "Last" -> Last_evaluate(context, a)
      [] f = "Position" -> Position_evaluate(context, a)
      [] f = "Count" -> Count_evaluate(context, a)
      [] f = "Concat" -> Concat_evaluate(context, a)
      [] f = "StartsWith" -> StartsWith_evaluate(context, a)
      [] f = "Contains" -> Contains_evaluate(context, a)
      [] f = "SubstringBefore" -> SubstringBefore_evaluate(context, a)
      [] f = "SubstringAfter" -> SubstringAfter_evaluate(context, a)
      [] f = "Not" -> Not_evaluate(context, a)
      [] f = "True" -> True_evaluate(context, a)
      [] f = "False" -> False_evaluate(context, a)
      [] f = "Floor" -> Floor_evaluate(context, a)
      [] f = "Ceiling" -> Ceiling_evaluate(context, a)

(***************************************************************************)
(* The registry: Functions, a map from name to boxed Function.             *)
(***************************************************************************)
\* HashMap::new()
EmptyRegistry == [n \in {} |-> "Last"]

\* HashMap::insert: binds the key, replacing any earlier binding.
insert(functions, name, f) ==
    [n \in DOMAIN functions \cup {name} |-> IF n = name THEN f ELSE functions[n]]

\* The inserts of register_core_functions, in source order.
CoreBindings ==
    << <<"last", "Last">>, <<"position", "Position">>, <<"count", "Count">>,
       <<"concat", "Concat">>, <<"starts-with", "StartsWith">>,
       <<"contains", "Contains">>, <<"substring-before", "SubstringBefore">>,
       <<"substring-after", "SubstringAfter">>, <<"not", "Not">>,
       <<"true", "True">>, <<"false", "False">>, <<"floor", "Floor">>,
       <<"ceiling", "Ceiling">> >>

RECURSIVE insert_each(_, _, _)
insert_each(functions, bindings, i) ==
    IF i > Len(bindings) THEN functions
    ELSE insert_each(insert(functions, bindings[i][1], bindings[i][2]),
                     bindings, i + 1)

\* Mutant of register_core_functions: Ceiling pasted under "floor".
register_core_functions_floor_pasted(functions) ==
    insert(insert_each(functions, CoreBindings, 1), "floor", "Ceiling")

\* Mutant of register_core_functions: the registry is emptied first.
register_core_functions_cleared(functions) ==
    insert_each(EmptyRegistry, CoreBindings, 1)

register_core_functions(functions) == insert_each(functions, CoreBindings, 1)

\* What a caller of the registry may bind on its own: any of the built-in
\* names or a name of its own, to a Function of this module.
UserNames == {CoreBindings[i][1] : i \in 1..Len(CoreBindings)} \cup {"my-fn"}

UserStructs == {"Last", "Concat", "Ceiling"}

(***************************************************************************)
(* Spec: one call of evaluate.  Init draws the context and the argument    *)
(* list; each action is the call of one built-in on them.                  *)
(***************************************************************************)
NoResult == [kind |-> "None"]

RegInit ==
    /\ registry = EmptyRegistry
    /\ prev = EmptyRegistry
    /\ base = EmptyRegistry
    /\ op = "new"
    /\ runs = 0
    /\ inserts = 0

Init ==
    /\ ctx \in Contexts
    /\ args \in ArgLists
    /\ fn = "None"
    /\ result = NoResult
    /\ RegInit

CallLast ==
    /\ fn = "None"
    /\ fn' = "Last"
    /\ result' = Last_evaluate(ctx, args)
    /\ UNCHANGED <<ctx, args>>
    /\ UNCHANGED regVars

CallPosition ==
    /\ fn = "None"
    /\ fn' = "Position"
    /\ result' = Position_evaluate(ctx, args)
    /\ UNCHANGED <<ctx, args>>
    /\ UNCHANGED regVars

CallCount ==
    /\ fn = "None"
    /\ fn' = "Count"
    /\ result' = Count_evaluate(ctx, args)
    /\ UNCHANGED <<ctx, args>>
    /\ UNCHANGED regVars

CallConcat ==
    /\ fn = "None"
    /\ fn' = "Concat"
    /\ result' = Concat_evaluate(ctx, args)
    /\ UNCHANGED <<ctx, args>>
    /\ UNCHANGED regVars

CallStartsWith ==
    /\ fn = "None"
    /\ fn' = "StartsWith"
    /\ result' = StartsWith_evaluate(ctx, args)
    /\ UNCHANGED <<ctx, args>>
    /\ UNCHANGED regVars

CallContains ==
    /\ fn = "None"
    /\ fn' = "Contains"
    /\ result' = Contains_evaluate(ctx, args)
    /\ UNCHANGED <<ctx, args>>
    /\ UNCHANGED regVars

CallSubstringBefore ==
    /\ fn = "None"
    /\ fn' = "SubstringBefore"
    /\ result' = SubstringBefore_evaluate(ctx, args)
    /\ UNCHANGED <<ctx, args>>
    /\ UNCHANGED regVars

CallSubstringAfter ==
    /\ fn = "None"
    /\ fn' = "SubstringAfter"
    /\ result' = SubstringAfter_evaluate(ctx, args)
    /\ UNCHANGED <<ctx, args>>
    /\ UNCHANGED regVars

CallNot ==
    /\ fn = "None"
    /\ fn' = "Not"
    /\ result' = Not_evaluate(ctx, args)
    /\ UNCHANGED <<ctx, args>>
    /\ UNCHANGED regVars

CallTrue ==
    /\ fn = "None"
    /\ fn' = "True"
    /\ result' = True_evaluate(ctx, args)
    /\ UNCHANGED <<ctx, args>>
    /\ UNCHANGED regVars

CallFalse ==
    /\ fn = "None"
    /\ fn' = "False"
    /\ result' = False_evaluate(ctx, args)
    /\ UNCHANGED <<ctx, args>>
    /\ UNCHANGED regVars

CallFloor ==
    /\ fn = "None"
    /\ fn' = "Floor"
    /\ result' = Floor_evaluate(ctx, args)
    /\ UNCHANGED <<ctx, args>>
    /\ UNCHANGED regVars

CallCeiling ==
    /\ fn = "None"
    /\ fn' = "Ceiling"
    /\ result' = Ceiling_evaluate(ctx, args)
    /\ UNCHANGED <<ctx, args>>
    /\ UNCHANGED regVars

Next ==
    \/ CallLast
    \/ CallPosition
    \/ CallCount
    \/ CallConcat
    \/ CallStartsWith
    \/ CallContains
    \/ CallSubstringBefore
    \/ CallSubstringAfter
    \/ CallNot
    \/ CallTrue
    \/ CallFalse
    \/ CallFloor
    \/ CallCeiling

Spec == Init /\ [][Next]_vars

(***************************************************************************)
(* SpecReg: a registry from construction on, under the caller's own        *)
(* inserts and register_core_functions.  prev is the registry before the   *)
(* last operation, op the last operation, runs the number of               *)
(* register_core_functions runs since the last caller insert, and base     *)
(* the registry before the first of those runs.                            *)
(***************************************************************************)
InitReg ==
    /\ ctx = [size |-> 1, position |-> 1]
    /\ args = <<>>
    /\ fn = "None"
    /\ result = NoResult
    /\ RegInit

UserInsert ==
    /\ inserts < MaxUserInserts
    /\ \E name \in UserNames, f \in UserStructs :
           registry' = insert(registry, name, f)
    /\ prev' = registry
    /\ op' = "insert"
    /\ UNCHANGED base
    /\ runs' = 0
    /\ inserts' = inserts + 1
    /\ UNCHANGED evalVars

RegisterCore ==
    /\ runs < MaxRuns
    /\ registry' = register_core_functions(registry)
    /\ prev' = registry
    /\ base' = IF runs = 0 THEN registry ELSE base
    /\ op' = "register"
    /\ runs' = runs + 1
    /\ UNCHANGED <<inserts>>
    /\ UNCHANGED evalVars

NextReg ==
    \/ UserInsert
    \/ RegisterCore

SpecReg == InitReg /\ [][NextReg]_vars

(***************************************************************************)
(* Claims on evaluate, checked under Spec.                                 *)
(***************************************************************************)
\* The arity the claims give each exact-arity built-in.
ClaimedArity ==
    [f \in Structs \ {"Concat"} |->
        CASE f \in {"Last", "Position", "True", "False"} -> 0
          [] f \in {"Count", "Not", "Floor", "Ceiling"} -> 1
          [] f \in {"StartsWith", "Contains", "SubstringBefore",
                    "SubstringAfter"} -> 2]

ClaimedTag(v) == IF v.tag = "Nodes" THEN "Nodeset" ELSE v.tag

IsArityError(r) ==
    r.kind = "Err" /\ r.error.kind \in {"NotEnoughArguments", "TooManyArguments"}

ArityViolated ==
    IF fn = "Concat" THEN Len(args) < 2 ELSE Len(args) # ClaimedArity[fn]

\* C1: a call whose argument count violates the built-in's arity returns
\* NotEnoughArguments or TooManyArguments, never WrongType (nor anything
\* else), whatever the variants of the arguments are.
C1_ArityBeforeType ==
    (fn # "None" /\ ArityViolated) => IsArityError(result)

C1_Witness ==
    /\ fn = "Floor"
    /\ Len(args) = 2
    /\ args[1].tag = "String"
    /\ result = Err(TooManyArguments(1, 2))

\* C2: for an exact-arity built-in of arity n and m arguments: m < n gives
\* NotEnoughArguments{n, m}, m > n gives TooManyArguments{n, m}, and only
\* m = n passes the arity check.
C2_ExactArity ==
    fn \in DOMAIN ClaimedArity =>
        LET n == ClaimedArity[fn]
            m == Len(args)
        IN  /\ m < n => result = Err(NotEnoughArguments(n, m))
            /\ m > n => result = Err(TooManyArguments(n, m))
            /\ m = n => ~IsArityError(result)

C2_Witness ==
    /\ fn = "StartsWith"
    /\ Len(args) = 3
    /\ result = Err(TooManyArguments(2, 3))

IsValue(v) ==
    \/ v.tag = "Nodes" /\ v.size \in Nat
    \/ v.tag = "Boolean" /\ v.b \in BOOLEAN
    \/ v.tag = "Number" /\ v.halves \in Int
    \/ v.tag = "String" /\ v.s \in Seq(Alphabet)

ArgumentTypes == {"Nodeset", "Boolean", "Number", "String"}

IsError(e) ==
    \/ /\ e.kind \in {"NotEnoughArguments", "TooManyArguments"}
       /\ e.expected \in Nat
       /\ e.actual \in Nat
    \/ /\ e.kind = "WrongType"
       /\ e.expected \in ArgumentTypes
       /\ e.actual \in ArgumentTypes

\* C3: every call returns a Value or an Error of the closed taxonomy; no
\* call aborts on args[0] or on a slice of the haystack.
C3_ValueOrError ==
    fn # "None" =>
        \/ result.kind = "Ok" /\ IsValue(result.value)
        \/ result.kind = "Err" /\ IsError(result.error)

\* The needle is not empty and its first occurrence ends the haystack, so
\* the slice of substring-after starts at the haystack's length.
C3_Witness ==
    /\ fn = "SubstringAfter"
    /\ Len(args) = 2
    /\ args[1] = String(<<"b", "a">>)
    /\ args[2] = String(<<"a">>)
    /\ result = Ok(String(<<>>))

RECURSIVE LenSum(_, _)
LenSum(a, k) == IF k = 0 THEN 0 ELSE LenSum(a, k - 1) + Len(a[k].s)

\* s is the strings of a one after the other: each character of each
\* argument sits at the argument's offset in s.
IsJoin(s, a) ==
    /\ Len(s) = LenSum(a, Len(a))
    /\ \A i \in 1..Len(a) : \A j \in 1..Len(a[i].s) :
           s[LenSum(a, i - 1) + j] = a[i].s[j]

AllStrings(a) == \A i \in 1..Len(a) : a[i].tag = "String"

\* C5: concat with 0 or 1 arguments returns NotEnoughArguments{2, len}; it
\* never returns TooManyArguments; with k >= 2 String arguments it returns
\* them joined in argument order with no separator.
C5_Concat ==
    fn = "Concat" =>
        /\ Len(args) < 2 => result = Err(NotEnoughArguments(2, Len(args)))
        /\ ~(result.kind = "Err" /\ result.error.kind = "TooManyArguments")
        /\ (Len(args) >= 2 /\ AllStrings(args)) =>
               /\ result.kind = "Ok"
               /\ result.value.tag = "String"
               /\ IsJoin(result.value.s, args)

C5_Witness ==
    /\ fn = "Concat"
    /\ args = <<String(<<"a", "b">>), String(<<>>), String(<<"b">>)>>
    /\ result = Ok(String(<<"a", "b", "b">>))

\* n occurs in h at byte offset i.
ClaimedOccursAt(h, n, i) ==
    i + Len(n) <= Len(h) /\ \A k \in 1..Len(n) : h[i + k] = n[k]

ClaimedOccurs(h, n) == \E i \in 0..Len(h) : ClaimedOccursAt(h, n, i)

\* C6: substring-before(h, n) and substring-after(h, n) split h at the
\* leftmost occurrence of n: before ++ n ++ after = h with no occurrence of
\* n starting inside before; both are "" when n does not occur; before = ""
\* and after = h when n is empty.
C6_SubstringSplit ==
    ( /\ fn \in {"SubstringBefore", "SubstringAfter"}
      /\ Len(args) = 2
      /\ AllStrings(args) ) =>
        LET h == args[1].s
            n == args[2].s
            rb == IF fn = "SubstringBefore" THEN result
                  ELSE SubstringBefore_evaluate(ctx, args)
            ra == IF fn = "SubstringAfter" THEN result
                  ELSE SubstringAfter_evaluate(ctx, args)
        IN  /\ rb.kind = "Ok" /\ rb.value.tag = "String"
            /\ ra.kind = "Ok" /\ ra.value.tag = "String"
            /\ LET before == rb.value.s
                   after == ra.value.s
               IN  /\ ClaimedOccurs(h, n) =>
                          /\ before \o n \o after = h
                          /\ \A i \in 0..(Len(before) - 1) :
                                 ~ClaimedOccursAt(h, n, i)
                   /\ ~ClaimedOccurs(h, n) => before = <<>> /\ after = <<>>
                   /\ n = <<>> => before = <<>> /\ after = h

\* The needle occurs twice; the split is at the first occurrence.
C6_Witness ==
    /\ fn = "SubstringAfter"
    /\ args = <<String(<<"a", "a">>), String(<<"a">>)>>
    /\ result = Ok(String(<<"a">>))
    /\ SubstringBefore_evaluate(ctx, args) = Ok(String(<<>>))

ClaimedRequired ==
    [f \in {"Count", "Not", "Floor", "Ceiling"} |->
        CASE f = "Count" -> "Nodeset"
          [] f = "Not" -> "Boolean"
          [] f \in {"Floor", "Ceiling"} -> "Number"]

\* C7: count, not, floor and ceiling with exactly one argument: of another
\* variant than the required one, WrongType{required, tag of the argument};
\* of the required variant, no error (count: the node-set's size as a
\* Number; not: the negated Boolean).
C7_SingleArgumentTyped ==
    (fn \in DOMAIN ClaimedRequired /\ Len(args) = 1) =>
        IF ClaimedTag(args[1]) # ClaimedRequired[fn]
        THEN result = Err(WrongType(ClaimedRequired[fn], ClaimedTag(args[1])))
        ELSE /\ result.kind = "Ok"
             /\ fn = "Count" => result.value = Number(2 * args[1].size)
             /\ fn = "Not" => result.value = Boolean(~args[1].b)

C7_Witness ==
    /\ fn = "Not"
    /\ args = <<Number(3)>>
    /\ result = Err(WrongType("Boolean", "Number"))

\* C8: last() returns the context's size and position() the context's
\* position as a Number; each of the other 11 built-ins returns, on the
\* same arguments, the same result under every context.
C8_ContextOnlyLastPosition ==
    /\ (fn = "Last" /\ args = <<>>) => result = Ok(Number(2 * ctx.size))
    /\ (fn = "Position" /\ args = <<>>) => result = Ok(Number(2 * ctx.position))
    /\ fn \in Structs \ {"Last", "Position"} =>
           \A other \in Contexts : Function_evaluate(fn, other, args) = result

C8_Witness ==
    /\ fn = "Count"
    /\ ctx.size = 3
    /\ args = <<Nodes(2)>>
    /\ result = Ok(Number(4))
    /\ Last_evaluate(ctx, <<>>) = Ok(Number(6))

StringBuiltins ==
    {"Concat", "StartsWith", "Contains", "SubstringBefore", "SubstringAfter"}

\* C9: a string built-in called with a correct number of arguments, at least
\* one of them not a String, returns WrongType{String, t}, t the tag of the
\* leftmost non-String argument, whatever stands to its right.
C9_LeftmostNonString ==
    ( /\ fn \in StringBuiltins
      /\ ~ArityViolated
      /\ ~AllStrings(args) ) =>
        LET first == CHOOSE i \in 1..Len(args) :
                         /\ args[i].tag # "String"
                         /\ \A j \in 1..(i - 1) : args[j].tag = "String"
        IN  result = Err(WrongType("String", ClaimedTag(args[first])))

C9_Witness ==
    /\ fn = "Concat"
    /\ Len(args) = 3
    /\ args[1].tag = "String"
    /\ args[2].tag = "Number"
    /\ args[3].tag = "Boolean"
    /\ result = Err(WrongType("String", "Number"))

(***************************************************************************)
(* Claims on the registry, checked under SpecReg.                          *)
(***************************************************************************)
CoreNames ==
    {"last", "position", "count", "concat", "starts-with", "contains",
     "substring-before", "substring-after", "not", "true", "false", "floor",
     "ceiling"}

\* The built-in table's arity: the least count accepted, and whether more
\* arguments are accepted.
TableArity(name) ==
    CASE name \in {"last", "position", "true", "false"} -> [min |-> 0, more |-> FALSE]
      [] name \in {"count", "not", "floor", "ceiling"} -> [min |-> 1, more |-> FALSE]
      [] name = "concat" -> [min |-> 2, more |-> TRUE]
      [] OTHER -> [min |-> 2, more |-> FALSE]

\* f has the table's arity for name: on m arguments (whatever their type),
\* too few and too many are reported as the table says, and nothing else is
\* reported as an arity error.
HasTableArity(name, f) ==
    \A m \in 0..MaxArgs :
        LET a == [i \in 1..m |-> Boolean(TRUE)]
            r == Function_evaluate(f, [size |-> 1, position |-> 1], a)
            t == TableArity(name)
        IN  /\ m < t.min => r = Err(NotEnoughArguments(t.min, m))
            /\ (m > t.min /\ ~t.more) => r = Err(TooManyArguments(t.min, m))
            /\ (m = t.min \/ (m > t.min /\ t.more)) => ~IsArityError(r)

\* f has the table's behaviour for name, on arguments that tell the 13
\* built-ins apart.
HasTableBehaviour(name, f) ==
    LET c == [size |-> 3, position |-> 2]
        ab == String(<<"a", "b">>)
        a1 == String(<<"a">>)
        b1 == String(<<"b">>)
        r(a) == Function_evaluate(f, c, a)
    IN  CASE name = "last" -> r(<<>>) = Ok(Number(6))
          [] name = "position" -> r(<<>>) = Ok(Number(4))
          [] name = "count" -> r(<<Nodes(2)>>) = Ok(Number(4))
          [] name = "concat" -> r(<<ab, b1, a1>>) = Ok(String(<<"a", "b", "b", "a">>))
          [] name = "starts-with" ->
                 r(<<ab, a1>>) = Ok(Boolean(TRUE)) /\ r(<<ab, b1>>) = Ok(Boolean(FALSE))
          [] name = "contains" ->
                 r(<<ab, b1>>) = Ok(Boolean(TRUE)) /\ r(<<a1, b1>>) = Ok(Boolean(FALSE))
          [] name = "substring-before" -> r(<<ab, b1>>) = Ok(a1)
          [] name = "substring-after" -> r(<<ab, a1>>) = Ok(b1)
          [] name = "not" ->
                 /\ r(<<Boolean(TRUE)>>) = Ok(Boolean(FALSE))
                 /\ r(<<Boolean(FALSE)>>) = Ok(Boolean(TRUE))
          [] name = "true" -> r(<<>>) = Ok(Boolean(TRUE))
          [] name = "false" -> r(<<>>) = Ok(Boolean(FALSE))
          [] name = "floor" ->
                 r(<<Number(3)>>) = Ok(Number(2)) /\ r(<<Number(-3)>>) = Ok(Number(-4))
          [] name = "ceiling" ->
                 r(<<Number(3)>>) = Ok(Number(4)) /\ r(<<Number(-3)>>) = Ok(Number(-2))

IsBuiltin(name, f) == HasTableArity(name, f) /\ HasTableBehaviour(name, f)

\* C4: after register_core_functions, each of the 13 names resolves, and to
\* the implementation with that name's arity and behaviour in the table.
C4_AllNamesResolve ==
    op = "register" =>
        \A name \in CoreNames :
            name \in DOMAIN registry /\ IsBuiltin(name, registry[name])

\* Registered into a registry that held Ceiling under "floor".
C4_Witness ==
    /\ op = "register"
    /\ "floor" \in DOMAIN prev
    /\ prev["floor"] = "Ceiling"
    /\ CoreNames \subseteq DOMAIN registry
    /\ HasTableBehaviour("floor", registry["floor"])

\* C10: from any registry, register_core_functions binds each of the 13
\* names to its built-in whatever the earlier binding, leaves the bindings
\* under every other name as they were and adds no other name, and a second
\* run leaves the registry as the first run left it.
C10_LastWriteWinsIdempotent ==
    op = "register" =>
        /\ DOMAIN registry = DOMAIN base \cup CoreNames
        /\ \A name \in CoreNames : IsBuiltin(name, registry[name])
        /\ \A name \in DOMAIN base \ CoreNames : registry[name] = base[name]
        /\ runs >= 2 => registry = prev

\* Two runs in a row, on a registry that held Last under "concat" and under
\* a name of the caller's own.
C10_Witness ==
    /\ op = "register"
    /\ runs = 2
    /\ DOMAIN base = {"concat", "my-fn"}
    /\ base["concat"] = "Last"
    /\ base["my-fn"] = "Last"
    /\ registry["concat"] = "Concat"
    /\ registry["my-fn"] = "Last"
    /\ registry = prev

====
